---- MODULE Spec2Model ----
(***************************************************************************)
(* TALLSorts, src/TALLSorts/tallsorts.py: the training run fit_classifier  *)
(* (validation of the hierarchy table and of the training inputs, the two  *)
(* joblib phases that fit the scalers and the classifiers, the write of    *)
(* custom.pkl.gz), and, each under a specification of its own, the         *)
(* functions gen_logreg_params (SpecParams), create_scalers with           *)
(* filter_genes (SpecFilter), run_predictions (SpecPredict),               *)
(* gen_multicall_csv (SpecCsv) and convert_symbols_to_ensembl               *)
(* (SpecSymbols).                                                          *)
(*                                                                         *)
(* A pandas table is modelled by what the code reads of it: the hierarchy  *)
(* by its rows (index label, 'Parent' value) in file order, the sample     *)
(* sheet by its index, its column names in order and the set of labels     *)
(* each sample holds a 1 for, the counts matrix X by its index and, where  *)
(* the genes matter, by its column ids and counts.                         *)
(***************************************************************************)
EXTENDS Integers, Sequences, FiniteSets, TLC

\* ------------------------------------------------------------------ bounds
MaxRows == 3        \* rows of an enumerated hierarchy table
MaxCols == 3        \* columns of an enumerated sample sheet
MaxSamples == 2     \* samples of the enumerated inputs
MaxJobs == 2        \* largest worker-pool size n_jobs
MaxParamRows == 2   \* rows of an enumerated parameter table
MaxParamCols == 2   \* columns of an enumerated parameter table
MaxGenes == 3       \* gene columns of an enumerated counts matrix, any gene ids
MaxCounted == 2     \* gene columns of an enumerated counts matrix, any counts
MaxCalls == 2       \* calls of one sample in an enumerated multi-call mapping
MaxSymbols == 3     \* gene symbols of an enumerated column list

VARIABLES
    hierarchy,        \* ui.hierarchy: [hasParent, rows]
    X,                \* ui.samples: the index (sample ids) of the counts matrix
    sample_sheet,     \* ui.sample_sheet: [index, columns, pos]
    training_params,  \* ui.training_params: [present, index, columns, cell]
    n_jobs,           \* ui.training_cores
    filter,           \* ui.filter
    pc,               \* where fit_classifier is
    error,            \* what the run reported when it stopped
    subtypeObjects,   \* label -> node (level, parent, children, clf)
    logreg_params,    \* label -> parameter set
    scalers,          \* the dict scalers of fit_classifier
    phase,            \* which Parallel call's tasks exist: "none", "A", "B"
    scalerTask,       \* Phase A: position in parent_labels -> task status
    clfTask,          \* Phase B: label -> task status
    scalerWrites,     \* history: key -> number of writes of scalers[key]
    clfWrites,        \* history: label -> number of writes of .clf
    clfRead,          \* history: label -> the scaler its Phase B task read, and the
                      \* number of writes of that key until then
    artifact,         \* the content of custom.pkl.gz, or None
    X_columns,        \* X.columns: the gene ids of the counts matrix, in order
    X_counts,         \* the counts: sample -> column position -> count
    context,          \* the parent_label a call of create_scalers is made with
    filtered,         \* what lines 601-603 of that call came to:
                      \* [state, min_subtype, candidate_genes]
    results,          \* results.levels of run_predictions: level key -> result
    written,          \* the levels run_predictions has written, in order:
                      \* [level, samples, label_list]
    multi_calls,      \* gen_multicall_csv: sample -> list of [label, proba]
    sample_order,     \* gen_multicall_csv: the samples in the order to write them
    csv_file,         \* the file at 'path': [exists, rows], a row a list of fields
    symb_list,        \* convert_symbols_to_ensembl: the gene symbols given
    confirmed,        \* its dict confirmed: symbol -> value
    unconfirmed,      \* its list unconfirmed
    nonexistent,      \* its list nonexistent
    fixed,            \* its counter fixed
    passes            \* history: the length of unconfirmed at the start of each
                      \* pass of the elimination loop

vars == <<hierarchy, X, sample_sheet, training_params, n_jobs, filter, pc, error,
          subtypeObjects, logreg_params, scalers, phase, scalerTask, clfTask,
          scalerWrites, clfWrites, clfRead, artifact,
          X_columns, X_counts, context, filtered, results, written,
          multi_calls, sample_order, csv_file,
          symb_list, confirmed, unconfirmed, nonexistent, fixed, passes>>

\* the state of the functions that are modelled on their own
filterVars == <<X_columns, X_counts, context, filtered>>
predictVars == <<results, written>>
csvVars == <<multi_calls, sample_order, csv_file>>
symbolVars == <<symb_list, confirmed, unconfirmed, nonexistent, fixed, passes>>
utilities == <<filterVars, predictVars, csvVars, symbolVars>>

\* the state of a training run after its inputs
training == <<error, subtypeObjects, logreg_params, scalers, phase, scalerTask, clfTask,
              scalerWrites, clfWrites, clfRead, artifact>>

inputs == <<hierarchy, X, sample_sheet, training_params, n_jobs, filter>>

\* ------------------------------------------------------------ Python values
None == "None"
EmptyDict == [k \in {} |-> 0]
NoError == [kind |-> "", sample |-> "", label |-> ""]
Put(d, k, v) == [x \in (DOMAIN d) \cup {k} |-> IF x = k THEN v ELSE d[x]]
Range(s) == {s[i] : i \in DOMAIN s}

RECURSIVE Flatten(_)
Flatten(ss) == IF ss = <<>> THEN <<>> ELSE Head(ss) \o Flatten(Tail(ss))

\* ------------------------------------------------------- the hierarchy table
Row(l, p) == [label |-> l, parent |-> p]
Table(hp, rows) == [hasParent |-> hp, rows |-> rows]
IndexOf(h) == [i \in 1..Len(h.rows) |-> h.rows[i].label]
ParentColumn(h) == [i \in 1..Len(h.rows) |-> h.rows[i].parent]

\* check_hierarchy without lines 657-660
check_hierarchy_no_duplicates(h) ==
    IF ~h.hasParent THEN [kind |-> "no_parent_column", sample |-> "", label |-> ""]
    ELSE LET idx == IndexOf(h)
             par == ParentColumn(h)
             bad == {i \in DOMAIN par : par[i] # "" /\ par[i] \notin Range(idx)}
         IN IF bad # {}
            THEN [kind |-> "dangling_parent", sample |-> "",
                  label |-> par[CHOOSE i \in bad : \A j \in bad : i <= j]]
            ELSE NoError

\* check_hierarchy: the error it exits with, or NoError
check_hierarchy(h) ==
    IF ~h.hasParent THEN [kind |-> "no_parent_column", sample |-> "", label |-> ""]
    ELSE LET idx == IndexOf(h)
             count(l) == Cardinality({i \in DOMAIN idx : idx[i] = l})
             duplicate_labels == {l \in Range(idx) : count(l) > 1}
             par == ParentColumn(h)
             bad == {i \in DOMAIN par : par[i] # "" /\ par[i] \notin Range(idx)}
         IN IF duplicate_labels # {}
            THEN [kind |-> "duplicate_label", sample |-> "",
                  label |-> CHOOSE l \in duplicate_labels :
                               \A m \in duplicate_labels : count(m) <= count(l)]
            ELSE IF bad # {}
            THEN [kind |-> "dangling_parent", sample |-> "",
                  label |-> par[CHOOSE i \in bad : \A j \in bad : i <= j]]
            ELSE NoError

\* ------------------------------------------- the tree of SubtypeClass nodes
\* genSubtypeObjsFromHierarchy (TALLSorts/stages/subtype_class.py) is imported,
\* not part of this file; it is modelled from the data model of the
\* specification: one node per label, parent and children from the 'Parent'
\* column, level 1 for a node without parent and level(parent) + 1 otherwise.
\* a scaler is kept as what it was fitted on: the samples, and min_subtype when
\* the genes were filtered (NoFilter otherwise); a classifier as the samples,
\* and the scaler it was fitted with (its parameters are logreg_params[label])
NoFilter == -1
NoScaler == [samples |-> {}, min_subtype |-> -2]
NoClf == [fitted |-> FALSE, samples |-> {}, scaler |-> NoScaler]

ParentOf(h, l) ==
    LET p == h.rows[CHOOSE i \in 1..Len(h.rows) : h.rows[i].label = l].parent
    IN IF p = "" THEN None ELSE p

ChildrenOf(h, l) ==
    LET kids == SelectSeq(h.rows, LAMBDA r : r.parent = l)
    IN [i \in 1..Len(kids) |-> kids[i].label]

\* 0 when the parent links from l never reach a node without parent
RECURSIVE LevelOf(_, _, _)
LevelOf(h, l, fuel) ==
    IF fuel = 0 THEN 0
    ELSE IF ParentOf(h, l) = None THEN 1
    ELSE LET p == LevelOf(h, ParentOf(h, l), fuel - 1)
         IN IF p = 0 THEN 0 ELSE p + 1

HasTree(h) == \A l \in Range(IndexOf(h)) : LevelOf(h, l, Len(h.rows)) # 0

genSubtypeObjsFromHierarchy(h) ==
    [l \in Range(IndexOf(h)) |->
        [label |-> l, level |-> LevelOf(h, l, Len(h.rows)), parent |-> ParentOf(h, l),
         children |-> ChildrenOf(h, l), clf |-> NoClf]]

\* iteration order of the dict subtypeObjects: insertion order, the table's rows
LabelOrder == IndexOf(hierarchy)

gen_hierarchy_dict(objs) ==
    [l \in DOMAIN objs |-> [level |-> objs[l].level, parent |-> objs[l].parent,
                            children |-> objs[l].children]]

\* ------------------------------------------------------ check_training_inputs
Max(S) == CHOOSE m \in S : \A x \in S : x <= m
Min(S) == CHOOSE m \in S : \A x \in S : m <= x

\* lines 673-676 with X and the sample sheet exchanged
MissingSamplesReversed(x, sheet) == {i \in sheet.index : i \notin x}

\* lines 673-676: the samples of X that the sample sheet does not list
MissingSamples(x, sheet) == {i \in x : i \notin sheet.index}

\* lines 679-682: column names that occur more than once
DuplicateColumns(sheet) ==
    {l \in Range(sheet.columns) :
        Cardinality({i \in DOMAIN sheet.columns : sheet.columns[i] = l}) > 1}

\* lines 685-688 left out
UnknownColumnsUnchecked(sheet, objs) == {}

\* lines 685-688: positions of the columns that are no label of the hierarchy
UnknownColumns(sheet, objs) ==
    {i \in DOMAIN sheet.columns : sheet.columns[i] \notin DOMAIN objs}

\* lines 693-694: the labels of the columns in which the sample's row is > 0.5
positive_labels(sheet, sample) ==
    SelectSeq(sheet.columns, LAMBDA l : l \in sheet.pos[sample])

\* lines 696-703: climb from label while the parent is positive; the label whose
\* parent is not, or None when the climb ends at a root or after `fuel` steps
RECURSIVE AncestorWalk(_, _, _, _)
AncestorWalk(objs, positive, cur_label, fuel) ==
    IF fuel = 0 THEN None
    ELSE IF objs[cur_label].parent = None THEN None
    ELSE IF objs[cur_label].parent \notin positive THEN cur_label
    ELSE AncestorWalk(objs, positive, objs[cur_label].parent, fuel - 1)

\* lines 695-703 leaving the loop over the labels after the first one
SampleViolationFirstLabel(sheet, objs, sample) ==
    LET labels == positive_labels(sheet, sample)
        max_levels == Max({objs[i].level : i \in DOMAIN objs})
    IN IF labels = <<>> THEN None
       ELSE AncestorWalk(objs, Range(labels), labels[1], max_levels)

\* lines 692-703 for one sample: the label reported for it, or None
SampleViolation(sheet, objs, sample) ==
    LET labels == positive_labels(sheet, sample)
        max_levels == Max({objs[i].level : i \in DOMAIN objs})
        hit == {i \in DOMAIN labels :
                  AncestorWalk(objs, Range(labels), labels[i], max_levels) # None}
    IN IF hit = {} THEN None
       ELSE AncestorWalk(objs, Range(labels), labels[Min(hit)], max_levels)

\* check_training_inputs: the errors it can stop with (NoError: it returns).
\* X and the sheet's index are sets here, so "the first offending sample in
\* row order" is any offending sample.
check_training_inputs(x, sheet, objs) ==
    IF MissingSamples(x, sheet) # {}
    THEN {[kind |-> "sample_not_in_sheet", sample |-> i, label |-> ""] :
            i \in MissingSamples(x, sheet)}
    ELSE IF DuplicateColumns(sheet) # {}
    THEN {[kind |-> "duplicate_column", sample |-> "", label |-> l] :
            l \in DuplicateColumns(sheet)}
    ELSE IF UnknownColumns(sheet, objs) # {}
    THEN {[kind |-> "label_not_in_hierarchy", sample |-> "",
           label |-> sheet.columns[Min(UnknownColumns(sheet, objs))]]}
    ELSE IF DOMAIN objs = {}
    THEN {[kind |-> "ValueError", sample |-> "", label |-> ""]}
    ELSE LET bad == {s \in sheet.index : SampleViolation(sheet, objs, s) # None}
         IN IF bad # {}
            THEN {[kind |-> "parent_negative", sample |-> s,
                   label |-> SampleViolation(sheet, objs, s)] : s \in bad}
            ELSE {NoError}

\* ---------------------------------------------------------- gen_logreg_params
\* A cell of the parameter table is the text pandas read from the file; an
\* empty cell is the empty string.  Floats are kept in units of 1e-4.
PropertyNames ==
    {"random_state", "max_iter", "tol", "penalty", "solver", "C", "class_weight"}

\* line 706
default_params ==
    [random_state |-> 0, max_iter |-> 10000, tol |-> 1, penalty |-> "l1",
     solver |-> "saga", C |-> 2000, class_weight |-> "balanced"]

\* int(text), float(text); NotInt and NotFloat say where Python raises ValueError
PyInt(text) ==
    CASE text = "0" -> 0
      [] text = "5" -> 5
      [] OTHER -> 0

NotInt(text) == text \notin {"0", "5"}

PyFloat(text) ==
    CASE text = "0" -> 0
      [] text = "5" -> 50000
      [] text = "0.5" -> 5000
      [] OTHER -> 0

NotFloat(text) == text \notin {"0", "5", "0.5"}

\* line 707: param_modifiers[property](value)
param_modifiers(property, value) ==
    CASE property \in {"random_state", "max_iter"} -> PyInt(value)
      [] property \in {"tol", "C"} -> PyFloat(value)
      [] property \in {"penalty", "solver", "class_weight"} -> value

\* line 719 raises: KeyError for a property without modifier, ValueError for a
\* text the modifier cannot convert
ModifierRaises(property, value) ==
    \/ property \notin PropertyNames
    \/ property \in {"random_state", "max_iter"} /\ NotInt(value)
    \/ property \in {"tol", "C"} /\ NotFloat(value)

\* line 718: truth value of a cell
Truthy(value) == value # ""

\* lines 714-719 for one label: the defaults, overwritten column by column
RECURSIVE ApplyRow(_, _, _, _)
ApplyRow(params, tp, label, cols) ==
    IF cols = {} THEN params
    ELSE LET property == CHOOSE c \in cols : TRUE
             value == tp.cell[<<label, property>>]
             next == IF Truthy(value) /\ property \in PropertyNames
                     THEN [params EXCEPT ![property] = param_modifiers(property, value)]
                     ELSE params
         IN ApplyRow(next, tp, label, cols \ {property})

\* whether lines 716-719 raise for the label
RowRaises(tp, label) ==
    \E property \in tp.columns :
        /\ Truthy(tp.cell[<<label, property>>])
        /\ ModifierRaises(property, tp.cell[<<label, property>>])

\* training_params is None (line 709)
NoTable == [present |-> FALSE, index |-> {}, columns |-> {}, cell |-> EmptyDict]

\* gen_logreg_params with line 714 assigning default_params itself, not a copy:
\* every label holds the one dict that all rows have written to
RECURSIVE ApplyRows(_, _, _)
ApplyRows(params, tp, labels) ==
    IF labels = {} THEN params
    ELSE LET label == CHOOSE l \in labels : TRUE
         IN ApplyRows(ApplyRow(params, tp, label, tp.columns), tp, labels \ {label})

gen_logreg_params_shared(tp, objs) ==
    IF ~tp.present
    THEN [raised |-> FALSE, value |-> [i \in DOMAIN objs |-> default_params]]
    ELSE IF \E label \in DOMAIN objs : label \in tp.index /\ RowRaises(tp, label)
    THEN [raised |-> TRUE, value |-> EmptyDict]
    ELSE [raised |-> FALSE,
          value |-> [label \in DOMAIN objs |->
                       ApplyRows(default_params, tp, tp.index \cap DOMAIN objs)]]

\* gen_logreg_params: whether it raises, and the dict it returns otherwise
gen_logreg_params(tp, objs) ==
    IF ~tp.present
    THEN [raised |-> FALSE, value |-> [i \in DOMAIN objs |-> default_params]]
    ELSE IF \E label \in DOMAIN objs : label \in tp.index /\ RowRaises(tp, label)
    THEN [raised |-> TRUE, value |-> EmptyDict]
    ELSE [raised |-> FALSE,
          value |-> [label \in DOMAIN objs |->
                       IF label \in tp.index
                       THEN ApplyRow(default_params, tp, label, tp.columns)
                       ELSE default_params]]

\* ------------------------------------------------- fit_classifier: Phase A
\* line 606: 'Level0', then the labels that have children, by level (stable)
parent_labels(objs, order) ==
    LET withChildren == SelectSeq(order, LAMBDA i : objs[i].children # <<>>)
        byLevel == [lev \in 1..Len(order) |->
                      SelectSeq(withChildren, LAMBDA i : objs[i].level = lev)]
    IN <<"Level0">> \o Flatten(byLevel)

\* the rows a context would be fitted on if it took the samples that are
\* positive for the parent of its node, and every row for a node of level 1
ScalerSubsetOfParent(x, sheet, parent_label) ==
    LET up == IF parent_label = "Level0" THEN ""
              ELSE hierarchy.rows[CHOOSE i \in 1..Len(hierarchy.rows) :
                                      hierarchy.rows[i].label = parent_label].parent
    IN IF up = "" THEN x ELSE {s \in sheet.index : up \in sheet.pos[s]}

\* lines 594-599: the rows of X the context is fitted on
ScalerSubset(x, sheet, parent_label) ==
    IF parent_label = "Level0" THEN x
    ELSE {s \in sheet.index : parent_label \in sheet.pos[s]}

\* lines 595, 599
children_labels(objs, order, parent_label) ==
    IF parent_label = "Level0" THEN SelectSeq(order, LAMBDA i : objs[i].level = 1)
    ELSE objs[parent_label].children

\* create_scalers raises: KeyError for a column the sheet lacks (line 597, 602)
\* or a sample X lacks (line 598), ValueError for min of nothing (line 602)
ScalerRaises(x, sheet, objs, order, parent_label, flt) ==
    \/ /\ parent_label # "Level0"
       /\ \/ parent_label \notin Range(sheet.columns)
          \/ ~(ScalerSubset(x, sheet, parent_label) \subseteq x)
    \/ /\ flt
       /\ \/ children_labels(objs, order, parent_label) = <<>>
          \/ \E c \in Range(children_labels(objs, order, parent_label)) :
                c \notin Range(sheet.columns)

\* what scalers[parent_label] would be set to if the assignment of line 598
\* narrowed one X that the tasks share: the rows left by the tasks before it
create_scalers_shared_X(x, sheet, objs, order, parent_label, flt) ==
    LET left == {s \in x : \A k \in DOMAIN scalers : s \in scalers[k].samples}
        subset == ScalerSubset(x, sheet, parent_label) \cap left
        kids == Range(children_labels(objs, order, parent_label))
    IN [samples |-> subset,
        min_subtype |->
            IF flt
            THEN Min({Cardinality({s \in subset : c \in sheet.pos[s]}) : c \in kids})
            ELSE NoFilter]

\* lines 601-604: what scalers[parent_label] is set to
create_scalers(x, sheet, objs, order, parent_label, flt) ==
    LET subset == ScalerSubset(x, sheet, parent_label)
        kids == Range(children_labels(objs, order, parent_label))
    IN [samples |-> subset,
        min_subtype |->
            IF flt
            THEN Min({Cardinality({s \in subset : c \in sheet.pos[s]}) : c \in kids})
            ELSE NoFilter]

\* ------------------------------------------------- fit_classifier: Phase B
\* line 615
ClfParent(objs, label) ==
    IF objs[label].parent # None THEN objs[label].parent ELSE "Level0"

\* lines 616-620
ClfSubset(x, sheet, objs, label) ==
    IF ClfParent(objs, label) # "Level0"
    THEN {s \in sheet.index : ClfParent(objs, label) \in sheet.pos[s]}
    ELSE x

\* lines 616-621 raise: KeyError for the parent's column (617), for a sample
\* X lacks (618), for a scaler that is not in the dict (621)
ClfReadRaises(x, sheet, objs, scl, label) ==
    \/ /\ ClfParent(objs, label) # "Level0"
       /\ \/ ClfParent(objs, label) \notin Range(sheet.columns)
          \/ ~(ClfSubset(x, sheet, objs, label) \subseteq x)
    \/ ClfParent(objs, label) \notin DOMAIN scl

\* line 623 raises: KeyError for the label's own column
ClfFitRaises(sheet, label) == label \notin Range(sheet.columns)

\* Parallel returning as soon as every task has been started
PhaseDispatched(tasks) == \A t \in DOMAIN tasks : tasks[t] # "pending"

\* Parallel returning when every task has ended, whether it raised or not
PhaseSettled(tasks) == \A t \in DOMAIN tasks : tasks[t] \in {"done", "failed"}

\* lines 607-608, 630-631: Parallel(...)(...) returns when every task of the
\* call has returned its result
PhaseComplete(tasks) == \A t \in DOMAIN tasks : tasks[t] = "done"

Running(tasks) == Cardinality({t \in DOMAIN tasks : tasks[t] = "running"})
AnyFailed(tasks) == \E t \in DOMAIN tasks : tasks[t] = "failed"

\* lines 636-641 with the dict clfs of line 586, which nothing fills, as 'clfs'
custom_model_clfs_dict(objs, scl) ==
    [hierarchy |-> gen_hierarchy_dict(objs),
     scalers |-> scl,
     clfs |-> [i \in {} |-> NoClf],
     is_default |-> FALSE]

\* lines 636-641
custom_model(objs, scl) ==
    [hierarchy |-> gen_hierarchy_dict(objs),
     scalers |-> scl,
     clfs |-> [i \in DOMAIN objs |-> objs[i].clf],
     is_default |-> FALSE]

\* ------------------------------------------------------------ filter_genes
\* line 725: the annotation, as far as the code reads it. A gene id is known
\* when it is in the domain; gene_by_id raises for any other id.
Gene(contig, biotype, name) == [contig |-> contig, biotype |-> biotype, name |-> name]
ensembl_data ==
    ("ENSG01" :> Gene("1", "protein_coding", "TAL1")) @@
    ("ENSG02" :> Gene("X", "protein_coding", "AR")) @@
    ("ENSG03" :> Gene("Y", "protein_coding", "SRY")) @@
    ("ENSG04" :> Gene("X", "lncRNA", "XIST")) @@
    ("ENSG05" :> Gene("1", "lncRNA", "MALAT1")) @@
    ("ENSG06" :> Gene("MT", "protein_coding", "MT-CO1")) @@
    ("ENSG07" :> Gene("1", "protein_coding", "DUP1")) @@
    ("ENSG08" :> Gene("2", "lncRNA", "DUP1"))

\* the order of Python's str comparison on the gene ids that occur
GeneIdOrder ==
    <<"ENSG01", "ENSG02", "ENSG03", "ENSG04", "ENSG05", "ENSG06", "ENSG99">>
StrLess(a, b) ==
    (CHOOSE i \in DOMAIN GeneIdOrder : GeneIdOrder[i] = a)
        < (CHOOSE i \in DOMAIN GeneIdOrder : GeneIdOrder[i] = b)

\* line 743
gene_ids(contig) == {g \in DOMAIN ensembl_data : ensembl_data[g].contig = contig}
gene_id_by_name(name) == CHOOSE g \in DOMAIN ensembl_data : ensembl_data[g].name = name

\* lines 731-738
known_genes(cols) == SelectSeq(cols, LAMBDA i : i \in DOMAIN ensembl_data)

\* lines 743-744
without_Y(cols) ==
    LET Y == gene_ids("Y") \cup {gene_id_by_name("XIST")}
    IN SelectSeq(cols, LAMBDA i : i \notin Y)

\* every biotype kept
any_biotype(cols) == cols

\* lines 749-750
categories_to_keep == {"protein_coding"}
coding_genes(cols) ==
    SelectSeq(cols, LAMBDA i : ensembl_data[i].biotype \in categories_to_keep)

\* lines 755-756
without_MT(cols) == SelectSeq(cols, LAMBDA i : ensembl_data[i].contig # "MT")

\* lines 731-756: the drops that go by the annotation
annotated_genes(cols) == without_MT(coding_genes(without_Y(known_genes(cols))))

\* X.sum(axis=1) of one sample over the columns at the positions 1..n
RECURSIVE RowSum(_, _)
RowSum(row, n) == IF n = 0 THEN 0 ELSE row[n] + RowSum(row, n - 1)

\* the library sizes if they were taken over the columns that are left after
\* the drops by annotation
RECURSIVE RowSumOver(_, _, _, _)
RowSumOver(row, cols, keep, n) ==
    IF n = 0 THEN 0
    ELSE (IF cols[n] \in keep THEN row[n] ELSE 0) + RowSumOver(row, cols, keep, n - 1)

library_size_of_remaining(cols, cnt, sample) ==
    RowSumOver(cnt[sample], cols, Range(annotated_genes(cols)), Len(cols))

\* lines 761, 764: the library size of a sample, over every column of X
library_size(cols, cnt, sample) == RowSum(cnt[sample], Len(cols))

\* lines 761-765: X_cpm >= cpm_threshold at one cell, both sides being
\* count / library * 1e6: count / lib >= 5 / minlib. Where a row sums to 0 and
\* the division of line 764 does not raise, the threshold is infinite and no
\* cell meets it.
meets_threshold(cols, cnt, rows, sample, j) ==
    LET minlib == Min({library_size(cols, cnt, r) : r \in rows})
    IN /\ minlib > 0
       /\ cnt[sample][j] * minlib >= 5 * library_size(cols, cnt, sample)

\* line 765: the column names that pass in at least min_subtype samples
to_remain(cols, cnt, rows, min_subtype) ==
    {cols[j] : j \in {k \in 1..Len(cols) :
        Cardinality({r \in rows : meets_threshold(cols, cnt, rows, r, k)}) >= min_subtype}}

\* lines 727-773: the list the call returns
candidate_genes(cols, cnt, rows, min_subtype) ==
    SortSeq(SelectSeq(annotated_genes(cols),
                      LAMBDA i : i \in to_remain(cols, cnt, rows, min_subtype)),
            StrLess)

\* lines 723-773: the ways the call can end. It raises when X has no row (min
\* of nothing, line 764); where a row sums to 0 the division of line 764
\* raises on Python numbers and gives infinity on numpy numbers.
filter_genes(cols, cnt, rows, min_subtype) ==
    IF rows = {} THEN {[raised |-> TRUE, value |-> <<>>]}
    ELSE {[raised |-> FALSE, value |-> candidate_genes(cols, cnt, rows, min_subtype)]}
         \cup (IF \E r \in rows : library_size(cols, cnt, r) = 0
               THEN {[raised |-> TRUE, value |-> <<>>]} ELSE {})

\* ------------------------------------------------------------- the inputs
SampleNames == <<"s1", "s2", "s3", "s4">>
Samples == {SampleNames[i] : i \in 1..MaxSamples}
SeqsUpTo(S, n) == UNION {[1..k -> S] : k \in 0..n}

TableLabels == {"A", "B", "Level0"}
TableRows == {Row(l, p) : l \in TableLabels, p \in TableLabels \cup {"", "Ghost"}}
BareRows == {Row(l, "") : l \in TableLabels}

\* tables whose labels are distinct and whose parents are labels
WellFormed(h) ==
    /\ h.hasParent
    /\ \A i, j \in 1..Len(h.rows) : h.rows[i].label = h.rows[j].label => i = j
    /\ \A i \in 1..Len(h.rows) : h.rows[i].parent \in Range(IndexOf(h)) \cup {""}

Chain3 == Table(TRUE, <<Row("A", ""), Row("B", "A"), Row("C", "B")>>)
Tree3 == Table(TRUE, <<Row("A", ""), Row("B", ""), Row("A1", "A")>>)

\* every sample in X and in the sheet, a column per label, every cell 1
FullSheet(h) ==
    [index |-> Samples, columns |-> IndexOf(h),
     pos |-> [s \in Samples |-> Range(IndexOf(h))]]

\* the names a column of an enumerated sheet can have: the labels of h and one
\* foreign label
ColumnNames(h) == Range(IndexOf(h)) \cup {"Q"}

\* the 0/1 fillings of a sheet: every one where the columns are distinct labels
\* of h, none but the empty one elsewhere (no other sheet has its cells read)
Fillings(h, idx, cols) ==
    IF DuplicateColumns([columns |-> cols]) = {} /\ "Q" \notin Range(cols)
    THEN [idx -> SUBSET Range(cols)]
    ELSE {[s \in idx |-> {}]}

\* every table, trained on a full sheet
InitTables ==
    /\ \/ \E r \in SeqsUpTo(TableRows, MaxRows) : hierarchy = Table(TRUE, r)
       \/ \E r \in SeqsUpTo(BareRows, MaxRows) : hierarchy = Table(FALSE, r)
    /\ X = Samples
    /\ sample_sheet = FullSheet(hierarchy)
    /\ n_jobs = 1
    /\ filter = FALSE

\* every well-formed table, every pool size, with and without gene filter
InitPools ==
    /\ \E r \in SeqsUpTo(TableRows, MaxRows) :
          hierarchy = Table(TRUE, r) /\ WellFormed(Table(TRUE, r))
    /\ X = Samples
    /\ sample_sheet = FullSheet(hierarchy)
    /\ n_jobs \in 1..MaxJobs
    /\ filter \in BOOLEAN

\* two trees, every sheet and every counts matrix
InitSheets ==
    /\ hierarchy \in {Chain3, Tree3}
    /\ X \in (SUBSET Samples) \ {{}}
    /\ \E idx \in SUBSET Samples, cols \in SeqsUpTo(ColumnNames(hierarchy), MaxCols) :
          \E p \in Fillings(hierarchy, idx, cols) :
             sample_sheet = [index |-> idx, columns |-> cols, pos |-> p]
    /\ n_jobs = 1
    /\ filter = TRUE

\* no call of a function that is modelled on its own has been made
NoFiltered == [state |-> "none", min_subtype |-> NoFilter, candidate_genes |-> <<>>]
NoFile == [exists |-> FALSE, rows |-> <<>>]
IdleFilter ==
    /\ X_columns = <<>>
    /\ X_counts = EmptyDict
    /\ context = ""
    /\ filtered = NoFiltered
IdlePredict ==
    /\ results = EmptyDict
    /\ written = <<>>
IdleCsv ==
    /\ multi_calls = EmptyDict
    /\ sample_order = <<>>
    /\ csv_file = NoFile
IdleSymbols ==
    /\ symb_list = <<>>
    /\ confirmed = EmptyDict
    /\ unconfirmed = <<>>
    /\ nonexistent = <<>>
    /\ fixed = 0
    /\ passes = <<>>
IdleUtilities == IdleFilter /\ IdlePredict /\ IdleCsv /\ IdleSymbols

\* no step of a training run has been made
IdleTraining ==
    /\ error = NoError
    /\ subtypeObjects = EmptyDict
    /\ logreg_params = EmptyDict
    /\ scalers = EmptyDict
    /\ phase = "none"
    /\ scalerTask = <<>>
    /\ clfTask = EmptyDict
    /\ scalerWrites = EmptyDict
    /\ clfWrites = EmptyDict
    /\ clfRead = EmptyDict
    /\ artifact = <<>>

\* two trees, a sheet whose first sample is positive for every label and whose
\* other samples are positive for none, every pool size
InitOrders ==
    /\ hierarchy \in {Chain3, Tree3}
    /\ X = Samples
    /\ sample_sheet =
          [index |-> Samples, columns |-> IndexOf(hierarchy),
           pos |-> [s \in Samples |->
                      IF s = SampleNames[1] THEN Range(IndexOf(hierarchy)) ELSE {}]]
    /\ n_jobs \in 1..MaxJobs
    /\ filter \in BOOLEAN

StartState ==
    /\ IdleUtilities
    /\ training_params = NoTable
    /\ pc = "check_hierarchy"
    /\ error = NoError
    /\ subtypeObjects = EmptyDict
    /\ logreg_params = EmptyDict
    /\ scalers = EmptyDict
    /\ phase = "none"
    /\ scalerTask = <<>>
    /\ clfTask = EmptyDict
    /\ scalerWrites = EmptyDict
    /\ clfWrites = EmptyDict
    /\ clfRead = EmptyDict
    /\ artifact = <<>>

Init == (InitTables \/ InitPools \/ InitSheets \/ InitOrders) /\ StartState

\* ------------------------------------------------- fit_classifier, main thread
Stop(at, err) == pc' = at /\ error' = err

\* line 581
CheckHierarchy ==
    /\ pc = "check_hierarchy"
    /\ IF check_hierarchy(hierarchy) = NoError
       THEN pc' = "gen_subtypes" /\ UNCHANGED error
       ELSE Stop("exited", check_hierarchy(hierarchy))
    /\ UNCHANGED <<inputs, utilities, subtypeObjects, logreg_params, scalers, phase, scalerTask,
                   clfTask, scalerWrites, clfWrites, clfRead, artifact>>

\* line 582; a table with a cycle has no tree and the run goes no further
GenSubtypeObjs ==
    /\ pc = "gen_subtypes"
    /\ IF HasTree(hierarchy)
       THEN /\ subtypeObjects' = genSubtypeObjsFromHierarchy(hierarchy)
            /\ pc' = "check_inputs"
       ELSE /\ pc' = "no_tree"
            /\ UNCHANGED subtypeObjects
    /\ UNCHANGED <<inputs, utilities, error, logreg_params, scalers, phase, scalerTask,
                   clfTask, scalerWrites, clfWrites, clfRead, artifact>>

\* line 583
CheckTrainingInputs ==
    /\ pc = "check_inputs"
    /\ \E e \in check_training_inputs(X, sample_sheet, subtypeObjects) :
          IF e = NoError THEN pc' = "gen_params" /\ UNCHANGED error
          ELSE IF e.kind = "ValueError" THEN Stop("crashed", e)
          ELSE Stop("exited", e)
    /\ UNCHANGED <<inputs, utilities, subtypeObjects, logreg_params, scalers, phase, scalerTask,
                   clfTask, scalerWrites, clfWrites, clfRead, artifact>>

\* lines 584-608: the parameters, the empty dicts, the Phase A tasks are handed
\* to Parallel
GenLogregParams ==
    /\ pc = "gen_params"
    /\ LET r == gen_logreg_params(training_params, subtypeObjects)
       IN IF r.raised
          THEN /\ Stop("crashed", [kind |-> "params", sample |-> "", label |-> ""])
               /\ UNCHANGED <<logreg_params, phase, scalerTask>>
          ELSE /\ logreg_params' = r.value
               /\ pc' = "phaseA"
               /\ phase' = "A"
               /\ scalerTask' = [i \in 1..Len(parent_labels(subtypeObjects, LabelOrder))
                                   |-> "pending"]
               /\ UNCHANGED error
    /\ UNCHANGED <<inputs, utilities, subtypeObjects, scalers, clfTask, scalerWrites, clfWrites,
                   clfRead, artifact>>

\* the first Parallel call returns (line 608); the Phase B tasks are handed over
JoinPhaseA ==
    /\ pc = "phaseA"
    /\ PhaseComplete(scalerTask)
    /\ pc' = "phaseB"
    /\ phase' = "B"
    /\ clfTask' = [l \in DOMAIN subtypeObjects |-> "pending"]
    /\ UNCHANGED <<inputs, utilities, error, subtypeObjects, logreg_params, scalers, scalerTask,
                   scalerWrites, clfWrites, clfRead, artifact>>

\* a Parallel call with worker threads re-raises the exception of a failed task
RaisePhase ==
    /\ n_jobs > 1
    /\ \/ pc = "phaseA" /\ AnyFailed(scalerTask)
       \/ pc = "phaseB" /\ AnyFailed(clfTask)
    /\ Stop("crashed", [kind |-> "task_failed", sample |-> "", label |-> ""])
    /\ UNCHANGED <<inputs, utilities, subtypeObjects, logreg_params, scalers, phase, scalerTask,
                   clfTask, scalerWrites, clfWrites, clfRead, artifact>>

\* lines 631-650: the second Parallel call returns, the model is written
SaveModel ==
    /\ pc = "phaseB"
    /\ PhaseComplete(clfTask)
    /\ artifact' = <<custom_model(subtypeObjects, scalers)>>
    /\ pc' = "done"
    /\ UNCHANGED <<inputs, utilities, error, subtypeObjects, logreg_params, scalers, phase,
                   scalerTask, clfTask, scalerWrites, clfWrites, clfRead>>

\* ------------------------------------------------ the tasks of the two phases
\* a task of n_jobs = 1 runs in the calling thread: its exception ends the run
TaskFailed ==
    IF n_jobs = 1
    THEN Stop("crashed", [kind |-> "task_failed", sample |-> "", label |-> ""])
    ELSE UNCHANGED <<pc, error>>

\* create_scalers(X, parent_labels[i]) starts; tasks start in list order, at
\* most n_jobs at a time
StartScaler(i) ==
    /\ pc = "phaseA"
    /\ scalerTask[i] = "pending"
    /\ \A j \in 1..(i - 1) : scalerTask[j] # "pending"
    /\ Running(scalerTask) < n_jobs
    /\ scalerTask' = [scalerTask EXCEPT ![i] = "running"]
    /\ UNCHANGED <<inputs, utilities, pc, error, subtypeObjects, logreg_params, scalers, phase,
                   clfTask, scalerWrites, clfWrites, clfRead, artifact>>

\* line 604: the task writes its scaler and returns
FinishScaler(i) ==
    /\ phase = "A"
    /\ scalerTask[i] = "running"
    /\ LET key == parent_labels(subtypeObjects, LabelOrder)[i]
       IN /\ ~ScalerRaises(X, sample_sheet, subtypeObjects, LabelOrder, key, filter)
          /\ scalers' = Put(scalers, key,
                 create_scalers(X, sample_sheet, subtypeObjects, LabelOrder, key, filter))
          /\ scalerWrites' = Put(scalerWrites, key,
                 IF key \in DOMAIN scalerWrites THEN scalerWrites[key] + 1 ELSE 1)
    /\ scalerTask' = [scalerTask EXCEPT ![i] = "done"]
    /\ UNCHANGED <<inputs, utilities, pc, error, subtypeObjects, logreg_params, phase, clfTask,
                   clfWrites, clfRead, artifact>>

\* the task raises: a KeyError or ValueError of lines 597-602, or an error of
\* filter_genes or createScaler
FailScaler(i) ==
    /\ phase = "A"
    /\ scalerTask[i] = "running"
    /\ scalerTask' = [scalerTask EXCEPT ![i] = "failed"]
    /\ TaskFailed
    /\ UNCHANGED <<inputs, utilities, subtypeObjects, logreg_params, scalers, phase, clfTask,
                   scalerWrites, clfWrites, clfRead, artifact>>

\* performing_training(X, label, ...) starts and runs lines 615-621: it reads
\* the scaler of its parent context, or raises
StartClf(label) ==
    /\ pc = "phaseB"
    /\ clfTask[label] = "pending"
    /\ \A j \in 1..Len(LabelOrder) :
          LabelOrder[j] = label => \A k \in 1..(j - 1) : clfTask[LabelOrder[k]] # "pending"
    /\ Running(clfTask) < n_jobs
    /\ IF ClfReadRaises(X, sample_sheet, subtypeObjects, scalers, label)
       THEN /\ clfTask' = [clfTask EXCEPT ![label] = "failed"]
            /\ TaskFailed
            /\ UNCHANGED clfRead
       ELSE /\ clfTask' = [clfTask EXCEPT ![label] = "running"]
            /\ clfRead' = Put(clfRead, label,
                   [scaler |-> scalers[ClfParent(subtypeObjects, label)],
                    writes |-> scalerWrites[ClfParent(subtypeObjects, label)]])
            /\ UNCHANGED <<pc, error>>
    /\ UNCHANGED <<inputs, utilities, subtypeObjects, logreg_params, scalers, phase, scalerTask,
                   scalerWrites, clfWrites, artifact>>

\* lines 622-627: the classifier is fitted and stored in the node
FinishClf(label) ==
    /\ phase = "B"
    /\ clfTask[label] = "running"
    /\ ~ClfFitRaises(sample_sheet, label)
    /\ subtypeObjects' =
          [subtypeObjects EXCEPT ![label].clf =
              [fitted |-> TRUE,
               samples |-> ClfSubset(X, sample_sheet, subtypeObjects, label),
               scaler |-> clfRead[label].scaler]]
    /\ clfWrites' = Put(clfWrites, label,
          IF label \in DOMAIN clfWrites THEN clfWrites[label] + 1 ELSE 1)
    /\ clfTask' = [clfTask EXCEPT ![label] = "done"]
    /\ UNCHANGED <<inputs, utilities, pc, error, logreg_params, scalers, phase, scalerTask,
                   scalerWrites, clfRead, artifact>>

\* the task raises: the KeyError of line 623, or an error of scaleForTesting
\* or LogisticRegression.fit
FailClf(label) ==
    /\ phase = "B"
    /\ clfTask[label] = "running"
    /\ clfTask' = [clfTask EXCEPT ![label] = "failed"]
    /\ TaskFailed
    /\ UNCHANGED <<inputs, utilities, subtypeObjects, logreg_params, scalers, phase, scalerTask,
                   scalerWrites, clfWrites, clfRead, artifact>>

Next ==
    \/ CheckHierarchy
    \/ GenSubtypeObjs
    \/ CheckTrainingInputs
    \/ GenLogregParams
    \/ \E i \in DOMAIN scalerTask : StartScaler(i)
    \/ \E i \in DOMAIN scalerTask : FinishScaler(i)
    \/ \E i \in DOMAIN scalerTask : FailScaler(i)
    \/ JoinPhaseA
    \/ \E label \in DOMAIN clfTask : StartClf(label)
    \/ \E label \in DOMAIN clfTask : FinishClf(label)
    \/ \E label \in DOMAIN clfTask : FailClf(label)
    \/ RaisePhase
    \/ SaveModel

Spec == Init /\ [][Next]_vars

\* ------------------------------------- gen_logreg_params on every small table
Cells == {"", "5", "l2"}
ParamIndexes == {i \in SUBSET {"A", "A1", "Zed"} : Cardinality(i) <= MaxParamRows}
ParamColumns ==
    {c \in SUBSET {"C", "max_iter", "penalty", "bogus"} : Cardinality(c) <= MaxParamCols}

InitParams ==
    /\ hierarchy = Tree3
    /\ X = Samples
    /\ sample_sheet = FullSheet(Tree3)
    /\ n_jobs = 1
    /\ filter = FALSE
    /\ \/ training_params = NoTable
       \/ \E idx \in ParamIndexes, cols \in ParamColumns :
             \E c \in [idx \X cols -> Cells] :
                training_params = [present |-> TRUE, index |-> idx, columns |-> cols,
                                   cell |-> c]
    /\ IdleUtilities
    /\ pc = "gen_params"
    /\ error = NoError
    /\ subtypeObjects = genSubtypeObjsFromHierarchy(Tree3)
    /\ logreg_params = EmptyDict
    /\ scalers = EmptyDict
    /\ phase = "none"
    /\ scalerTask = <<>>
    /\ clfTask = EmptyDict
    /\ scalerWrites = EmptyDict
    /\ clfWrites = EmptyDict
    /\ clfRead = EmptyDict
    /\ artifact = <<>>

NextParams == GenLogregParams

SpecParams == InitParams /\ [][NextParams]_vars

\* --------------------------- create_scalers with the gene filter, on its own
CountValues == {0, 5}
AllGeneIds == Range(GeneIdOrder)
FewGeneIds == {"ENSG01", "ENSG99"}

\* every list of gene ids, each sample with one count in all its cells
GeneMatrices ==
    \E cols \in SeqsUpTo(AllGeneIds, MaxGenes) :
        \E c \in [Samples -> CountValues] :
            /\ X_columns = cols
            /\ X_counts = [s \in Samples |-> [j \in 1..Len(cols) |-> c[s]]]

\* every matrix of counts, over two gene ids
CountMatrices ==
    \E cols \in SeqsUpTo(FewGeneIds, MaxCounted) :
        \E cnt \in [Samples -> [1..Len(cols) -> CountValues]] :
            X_columns = cols /\ X_counts = cnt

\* sheets over Tree3 that pass check_training_inputs
TreeSheets ==
    {[index |-> Samples, columns |-> IndexOf(Tree3), pos |-> p] :
        p \in [Samples -> {{"A", "A1"}, {"A"}, {"B"}}]}

InitFilter ==
    /\ hierarchy = Tree3
    /\ X = Samples
    /\ n_jobs = 1
    /\ filter = TRUE
    /\ training_params = NoTable
    /\ \/ /\ sample_sheet = FullSheet(Tree3)
          /\ context = "Level0"
          /\ GeneMatrices
       \/ /\ sample_sheet \in TreeSheets
          /\ context \in {"Level0", "A"}
          /\ CountMatrices
    /\ filtered = NoFiltered
    /\ IdlePredict /\ IdleCsv /\ IdleSymbols
    /\ pc = "create_scalers"
    /\ error = NoError
    /\ subtypeObjects = genSubtypeObjsFromHierarchy(Tree3)
    /\ logreg_params = gen_logreg_params(NoTable, genSubtypeObjsFromHierarchy(Tree3)).value
    /\ scalers = EmptyDict
    /\ phase = "A"
    /\ scalerTask = <<>>
    /\ clfTask = EmptyDict
    /\ scalerWrites = EmptyDict
    /\ clfWrites = EmptyDict
    /\ clfRead = EmptyDict
    /\ artifact = <<>>

\* lines 593-604 with filter=True: the subset, min_subtype, filter_genes, and
\* the scaler stored under the label
CreateScalers ==
    /\ pc = "create_scalers"
    /\ IF ScalerRaises(X, sample_sheet, subtypeObjects, LabelOrder, context, TRUE)
       THEN /\ filtered' = [NoFiltered EXCEPT !.state = "raised"]
            /\ UNCHANGED scalers
       ELSE LET made == create_scalers(X, sample_sheet, subtypeObjects, LabelOrder,
                                       context, TRUE)
            IN \E r \in filter_genes(X_columns, X_counts, made.samples, made.min_subtype) :
                  IF r.raised
                  THEN /\ filtered' = [state |-> "raised",
                                       min_subtype |-> made.min_subtype,
                                       candidate_genes |-> <<>>]
                       /\ UNCHANGED scalers
                  ELSE /\ filtered' = [state |-> "returned",
                                       min_subtype |-> made.min_subtype,
                                       candidate_genes |-> r.value]
                       /\ scalers' = Put(scalers, context, made)
    /\ pc' = "scaler_created"
    /\ UNCHANGED <<inputs, X_columns, X_counts, context, predictVars, csvVars,
                   symbolVars, error, subtypeObjects, logreg_params, phase, scalerTask,
                   clfTask, scalerWrites, clfWrites, clfRead, artifact>>

NextFilter == CreateScalers

SpecFilter == InitFilter /\ [][NextFilter]_vars

\* ------------------------------------------------------------ run_predictions
\* the hierarchy of the model that predicts: two nodes of level 1, both with
\* children, one grandchild
PredictTree ==
    Table(TRUE, <<Row("A", ""), Row("B", ""), Row("A1", "A"), Row("A2", "A"),
                  Row("B1", "B"), Row("A1a", "A1")>>)

\* the order of Python's str comparison on the labels of PredictTree
LabelStrOrder == <<"A", "A1", "A1a", "A2", "B", "B1">>
LabelLess(a, b) ==
    (CHOOSE i \in DOMAIN LabelStrOrder : LabelStrOrder[i] = a)
        < (CHOOSE i \in DOMAIN LabelStrOrder : LabelStrOrder[i] = b)

\* a key of results.levels, 'Level_<num>_<parent>', by the parts that lines
\* 501-503 take from it
LevelKey(num, parent) == [num |-> num, parent |-> parent]

\* the labels of level 1, whatever the key
get_children_of_level_one(objs, order, label_name) ==
    SortSeq(SelectSeq(order, LAMBDA i : objs[i].level = 1), LabelLess)

\* lines 499-508
get_children_of_label(objs, order, label_name) ==
    LET level_num == label_name.num
        parent_label == label_name.parent
    IN IF level_num = 1
       THEN SortSeq(SelectSeq(order, LAMBDA i : objs[i].level = 1), LabelLess)
       ELSE objs[parent_label].children

\* the cascade of tallsorts.predict: one result per node that has children,
\* level by level
LevelKeys(objs, order) ==
    LET nodes == parent_labels(objs, order)
    IN [i \in 1..Len(nodes) |->
          LevelKey(IF i = 1 THEN 1 ELSE objs[nodes[i]].level + 1, nodes[i])]

\* the labels that are scored in the result of a key: the children of its node
LevelLabels(objs, order, key) == children_labels(objs, order, key.parent)

\* the key of the result in which the node of a key is scored
ParentKey(objs, key) == LevelKey(key.num - 1, ClfParent(objs, key.parent))

ProbValues == {40, 60}      \* probabilities, in hundredths
Threshold == 50

EmptyResult ==
    [present |-> FALSE, index |-> {}, labels |-> <<>>, probs |-> EmptyDict,
     calls |-> EmptyDict]

\* the highest label of a row of probabilities, the first of the list on a tie
y_highest(labels, row) ==
    labels[CHOOSE i \in DOMAIN labels :
              \A j \in DOMAIN labels :
                  /\ row[labels[j]] <= row[labels[i]]
                  /\ j < i => row[labels[j]] < row[labels[i]]]

\* the call of a row: the highest label where it reaches the threshold
CallOf(labels, row) ==
    [y_highest |-> y_highest(labels, row),
     y_pred |-> IF row[y_highest(labels, row)] >= Threshold
                THEN y_highest(labels, row) ELSE "Unclassified"]

\* the samples that would go on if the highest label alone decided
ForwardedByHighest(objs, res, x, key) ==
    IF key.num = 1 THEN x
    ELSE {s \in res[ParentKey(objs, key)].index :
             res[ParentKey(objs, key)].calls[s].y_highest = key.parent}

\* the samples that are scored under the node of a key: every sample at level
\* 1, below it the samples the node's own level called into the node
Forwarded(objs, res, x, key) ==
    IF key.num = 1 THEN x
    ELSE {s \in res[ParentKey(objs, key)].index :
             res[ParentKey(objs, key)].calls[s].y_pred = key.parent}

\* the next key predict makes a result for
NextKey == LevelKeys(subtypeObjects, LabelOrder)[Cardinality(DOMAIN results) + 1]

\* the keys run_predictions works on (line 153), in the order of the dict
LevelsToWrite ==
    SelectSeq(LevelKeys(subtypeObjects, LabelOrder), LAMBDA k : results[k].present)

InitPredict ==
    /\ hierarchy = PredictTree
    /\ X \in (SUBSET Samples) \ {{}}
    /\ sample_sheet = FullSheet(PredictTree)
    /\ training_params = NoTable
    /\ n_jobs = 1
    /\ filter = FALSE
    /\ pc = "predict"
    /\ error = NoError
    /\ subtypeObjects = genSubtypeObjsFromHierarchy(PredictTree)
    /\ logreg_params = EmptyDict
    /\ scalers = EmptyDict
    /\ phase = "none"
    /\ scalerTask = <<>>
    /\ clfTask = EmptyDict
    /\ scalerWrites = EmptyDict
    /\ clfWrites = EmptyDict
    /\ clfRead = EmptyDict
    /\ artifact = <<>>
    /\ IdleUtilities

\* line 150, one level of tallsorts.predict: the samples forwarded to the node
\* are scored against its children and called
PredictLevel ==
    /\ pc = "predict"
    /\ LET key == NextKey
           labels == LevelLabels(subtypeObjects, LabelOrder, key)
           index == Forwarded(subtypeObjects, results, X, key)
       IN IF index = {}
          THEN results' = Put(results, key, EmptyResult)
          ELSE \E probs \in [index -> [Range(labels) -> ProbValues]] :
                  results' = Put(results, key,
                      [present |-> TRUE, index |-> index, labels |-> labels,
                       probs |-> probs,
                       calls |-> [s \in index |-> CallOf(labels, probs[s])]])
    /\ pc' = IF Cardinality(DOMAIN results) + 1 = Len(LevelKeys(subtypeObjects, LabelOrder))
             THEN "write_levels" ELSE "predict"
    /\ UNCHANGED <<inputs, training, filterVars, written, csvVars, symbolVars>>

\* lines 153-174, one round of the loop: the files of a level that has a result
WriteLevel ==
    /\ pc = "write_levels"
    /\ Len(written) < Len(LevelsToWrite)
    /\ LET level == LevelsToWrite[Len(written) + 1]
       IN written' = Append(written,
             [level |-> level,
              samples |-> results[level].index,
              label_list |-> get_children_of_label(subtypeObjects, LabelOrder, level)])
    /\ UNCHANGED <<inputs, training, filterVars, results, csvVars, symbolVars, pc>>

\* lines 176-177
FinishPredictions ==
    /\ pc = "write_levels"
    /\ Len(written) = Len(LevelsToWrite)
    /\ pc' = "finished"
    /\ UNCHANGED <<inputs, training, filterVars, predictVars, csvVars, symbolVars>>

NextPredict == PredictLevel \/ WriteLevel \/ FinishPredictions

SpecPredict == InitPredict /\ [][NextPredict]_vars

\* ---------------------------------------------------------- gen_multicall_csv
\* a call: a label and its probability, in ten-thousandths
Call(label, proba) == [label |-> label, proba |-> proba]
CallSet == {Call("A", 5204), Call("B", 4900)}

\* line 198: the text csv.writer writes for round(call[1], 3)
RoundedText(proba) ==
    CASE (proba + 5) \div 10 = 520 -> "0.52"
      [] (proba + 5) \div 10 = 490 -> "0.49"

\* line 194: f'call_{k+1}'
CallTitles == <<"call_1", "call_2", "call_3", "call_4">>

\* line 194: the header row
RECURSIVE HeaderPairs(_)
HeaderPairs(n) ==
    IF n = 0 THEN <<>> ELSE HeaderPairs(n - 1) \o <<CallTitles[n], "proba">>

\* lines 197-198
RECURSIVE CallFields(_)
CallFields(calls) ==
    IF calls = <<>> THEN <<>>
    ELSE <<Head(calls).label, RoundedText(Head(calls).proba)>> \o CallFields(Tail(calls))

\* lines 196-199: the row of a sample
SampleRow(mc, max_multicall, sample) ==
    LET to_write == <<sample>> \o CallFields(mc[sample])
    IN to_write \o [i \in 1..Max({0, 2 * max_multicall - Len(to_write)}) |-> ""]

\* lines 188-201: the file the call leaves at path
gen_multicall_csv(mc, order) ==
    IF DOMAIN mc = {} THEN NoFile
    ELSE LET max_multicall == Max({Len(mc[i]) : i \in DOMAIN mc})
         IN [exists |-> TRUE,
             rows |-> <<<<"">> \o HeaderPairs(max_multicall)>>
                         \o [i \in 1..Len(order) |-> SampleRow(mc, max_multicall, order[i])]]

InitCsv ==
    /\ hierarchy = PredictTree
    /\ X = Samples
    /\ sample_sheet = FullSheet(PredictTree)
    /\ training_params = NoTable
    /\ n_jobs = 1
    /\ filter = FALSE
    /\ pc = "sample_order"
    /\ IdleTraining
    /\ IdleFilter /\ IdlePredict /\ IdleSymbols
    /\ \E S \in SUBSET Samples : multi_calls \in [S -> SeqsUpTo(CallSet, MaxCalls)]
    /\ sample_order = <<>>
    /\ csv_file = NoFile

\* line 164: the keys of multi_calls in the order of ui.samples.index
SortSampleOrder ==
    /\ pc = "sample_order"
    /\ sample_order' = SelectSeq(SubSeq(SampleNames, 1, MaxSamples),
                                 LAMBDA x : x \in DOMAIN multi_calls)
    /\ pc' = "gen_multicall_csv"
    /\ UNCHANGED <<inputs, training, filterVars, predictVars, symbolVars, multi_calls,
                   csv_file>>

\* line 165
GenMulticallCsv ==
    /\ pc = "gen_multicall_csv"
    /\ csv_file' = gen_multicall_csv(multi_calls, sample_order)
    /\ pc' = "csv_written"
    /\ UNCHANGED <<inputs, training, filterVars, predictVars, symbolVars, multi_calls,
                   sample_order>>

NextCsv == SortSampleOrder \/ GenMulticallCsv

SpecCsv == InitCsv /\ [][NextCsv]_vars

\* ------------------------------------------------- convert_symbols_to_ensembl
\* str.upper() on the symbols that occur
Upper(symbol) == IF symbol = "tal1" THEN "TAL1" ELSE symbol

\* ensembl_data.genes_by_name(name): the ids of the genes of that name, in the
\* order of the annotation; the call raises when there is none
AnnotationOrder ==
    <<"ENSG01", "ENSG02", "ENSG03", "ENSG04", "ENSG05", "ENSG06", "ENSG07", "ENSG08">>
genes_by_name(name) == SelectSeq(AnnotationOrder, LAMBDA g : ensembl_data[g].name = name)
NameRaises(name) == genes_by_name(name) = <<>>

\* what a value of confirmed can be: the str gene_id of a gene (line 472) or a
\* Gene object (line 489); a str never equals a Gene
IdValue(g) == [kind |-> "gene_id", id |-> g]
GeneValue(g) == [kind |-> "Gene", id |-> g]

\* lines 468-477: the dict confirmed after the first loop
first_confirmed(symbols) ==
    [i \in {x \in Range(symbols) : Len(genes_by_name(Upper(x))) = 1}
        |-> IdValue(genes_by_name(Upper(i))[1])]

\* lines 468-477: the list unconfirmed after the first loop
first_unconfirmed(symbols) ==
    SelectSeq(symbols, LAMBDA i : ~NameRaises(Upper(i)) /\ Len(genes_by_name(Upper(i))) # 1)

\* lines 468-477: the list nonexistent after the first loop
first_nonexistent(symbols) == SelectSeq(symbols, LAMBDA i : NameRaises(Upper(i)))

\* line 487: the genes of a symbol that are not among the values of confirmed
not_confirmed(conf, symbol) ==
    SelectSeq(genes_by_name(Upper(symbol)), LAMBDA g : GeneValue(g) \notin Range(conf))

\* lines 483-493: one pass over the list todo, from the state [confirmed,
\* fixed, unconfirmed2]
RECURSIVE elimination_pass(_, _)
elimination_pass(todo, st) ==
    IF todo = <<>> THEN st
    ELSE LET i == Head(todo)
             y == not_confirmed(st.confirmed, i)
         IN elimination_pass(Tail(todo),
                IF Len(y) = 1
                THEN [st EXCEPT !.confirmed = Put(st.confirmed, i, GeneValue(y[1])),
                                !.fixed = st.fixed + 1]
                ELSE [st EXCEPT !.unconfirmed2 = Append(st.unconfirmed2, i)])

\* line 494 without the symbols that have no gene
unconfirmed_only(unconf, nonex) == unconf

\* line 494
unconfirmed_and_nonexistent(unconf, nonex) == unconf \o nonex

Symbols == {"TAL1", "tal1", "DUP1", "NOPE"}

InitSymbols ==
    /\ hierarchy = PredictTree
    /\ X = Samples
    /\ sample_sheet = FullSheet(PredictTree)
    /\ training_params = NoTable
    /\ n_jobs = 1
    /\ filter = FALSE
    /\ pc = "convert_symbols"
    /\ IdleTraining
    /\ IdlePredict /\ IdleCsv
    /\ symb_list \in SeqsUpTo(Symbols, MaxSymbols)
    /\ X_columns = symb_list
    /\ X_counts = EmptyDict
    /\ context = ""
    /\ filtered = NoFiltered
    /\ confirmed = EmptyDict
    /\ unconfirmed = <<>>
    /\ nonexistent = <<>>
    /\ fixed = 0
    /\ passes = <<>>

\* lines 465-481: the first loop
FirstLookup ==
    /\ pc = "convert_symbols"
    /\ confirmed' = first_confirmed(symb_list)
    /\ unconfirmed' = first_unconfirmed(symb_list)
    /\ nonexistent' = first_nonexistent(symb_list)
    /\ fixed' = 1
    /\ pc' = "elimination"
    /\ UNCHANGED <<inputs, training, filterVars, predictVars, csvVars, symb_list, passes>>

\* lines 482-493: one pass of the while loop
EliminationPass ==
    /\ pc = "elimination"
    /\ fixed > 0
    /\ LET st == elimination_pass(unconfirmed,
                     [confirmed |-> confirmed, fixed |-> 0, unconfirmed2 |-> <<>>])
       IN /\ confirmed' = st.confirmed
          /\ fixed' = st.fixed
          /\ unconfirmed' = st.unconfirmed2
    /\ passes' = Append(passes, Len(unconfirmed))
    /\ UNCHANGED <<inputs, training, filterVars, predictVars, csvVars, symb_list,
                   nonexistent, pc>>

\* lines 482, 494-497: the loop ends, the function returns
ReturnSymbols ==
    /\ pc = "elimination"
    /\ ~(fixed > 0)
    /\ unconfirmed' = unconfirmed_and_nonexistent(unconfirmed, nonexistent)
    /\ pc' = "symbols_returned"
    /\ UNCHANGED <<inputs, training, filterVars, predictVars, csvVars, symb_list,
                   confirmed, nonexistent, fixed, passes>>

\* run, lines 87-88: the unconfirmed columns are dropped, the others renamed;
\* line 88 raises KeyError for a column without entry in confirmed
RelabelColumns ==
    /\ pc = "symbols_returned"
    /\ LET kept == SelectSeq(X_columns, LAMBDA i : i \notin Range(unconfirmed))
       IN IF \A i \in Range(kept) : i \in DOMAIN confirmed
          THEN /\ X_columns' = [j \in DOMAIN kept |-> confirmed[kept[j]].id]
               /\ pc' = "relabelled"
          ELSE /\ X_columns' = kept
               /\ pc' = "relabel_raised"
    /\ UNCHANGED <<inputs, training, X_counts, context, filtered, predictVars, csvVars,
                   symbolVars>>

NextSymbols == FirstLookup \/ EliminationPass \/ ReturnSymbols \/ RelabelColumns

\* the function runs on its own thread of control: a step that can be taken is
\* taken
SpecSymbols == InitSymbols /\ [][NextSymbols]_vars /\ WF_vars(NextSymbols)

\* ================================================================ properties
TableLabelSet == Range(IndexOf(hierarchy))
HierarchyErrors == {"no_parent_column", "duplicate_label", "dangling_parent"}
InputErrors ==
    {"sample_not_in_sheet", "duplicate_column", "label_not_in_hierarchy", "parent_negative"}

\* no Phase A or Phase B task has started, nothing is fitted or written
NothingFitted ==
    /\ phase = "none"
    /\ scalerTask = <<>>
    /\ clfTask = EmptyDict
    /\ scalers = EmptyDict
    /\ artifact = <<>>

\* check_hierarchy has run
HierarchyChecked == pc # "check_hierarchy"

\* check_training_inputs has run
InputsChecked ==
    /\ pc \notin {"check_hierarchy", "gen_subtypes", "check_inputs", "no_tree"}
    /\ error.kind \notin HierarchyErrors

MalformedTable(h) ==
    \/ ~h.hasParent
    \/ \E i, j \in 1..Len(h.rows) : i # j /\ h.rows[i].label = h.rows[j].label
    \/ \E i \in 1..Len(h.rows) :
          h.rows[i].parent # "" /\ \A j \in 1..Len(h.rows) : h.rows[j].label # h.rows[i].parent

\* C1: once check_hierarchy has run on a table without 'Parent' column, with a
\* label that occurs twice, or with a non-empty parent that is no label, the run
\* has exited with a hierarchy error and no scaler or classifier task has started.
C1_MalformedHierarchyExits ==
    (HierarchyChecked /\ MalformedTable(hierarchy)) =>
        (pc = "exited" /\ error.kind \in HierarchyErrors /\ NothingFitted)

C1_Witness ==
    /\ pc = "exited"
    /\ error.kind = "duplicate_label"
    /\ \E i \in 1..Len(hierarchy.rows) : hierarchy.rows[i].parent = "Ghost"

\* the labels reached from the labels of S by following 'Parent', in 1..n steps
RECURSIVE ReachedByParent(_, _, _)
ReachedByParent(h, S, n) ==
    IF n = 0 THEN {}
    ELSE LET P == {h.rows[i].parent : i \in {j \in 1..Len(h.rows) : h.rows[j].label \in S}}
                     \ {""}
         IN P \cup ReachedByParent(h, P, n - 1)

HasCycle(h) ==
    \E i \in 1..Len(h.rows) :
        h.rows[i].label \in ReachedByParent(h, {h.rows[i].label}, Len(h.rows))

\* C2: once check_hierarchy has run on a table whose parent links contain a
\* cycle, the run has exited: no cyclic table is passed on.
C2_CyclicTableExits ==
    (HierarchyChecked /\ HasCycle(hierarchy)) => pc = "exited"

\* the proper ancestors of a label in the tree
RECURSIVE AncestorsOf(_, _, _)
AncestorsOf(objs, l, n) ==
    IF n = 0 \/ objs[l].parent = None THEN {}
    ELSE {objs[l].parent} \cup AncestorsOf(objs, objs[l].parent, n - 1)

\* the samples that hold a 1 for a label and not for one of its ancestors
BrokenSamples ==
    {s \in sample_sheet.index :
        \E l \in sample_sheet.pos[s] \cap DOMAIN subtypeObjects :
            \E a \in AncestorsOf(subtypeObjects, l, Cardinality(DOMAIN subtypeObjects)) :
                a \notin sample_sheet.pos[s]}

RejectedBefore ==
    \/ ~(X \subseteq sample_sheet.index)
    \/ \E i, j \in DOMAIN sample_sheet.columns :
          i # j /\ sample_sheet.columns[i] = sample_sheet.columns[j]
    \/ \E i \in DOMAIN sample_sheet.columns : sample_sheet.columns[i] \notin TableLabelSet

\* C3: once check_training_inputs has run: if some sample is positive for a
\* label and negative for one of its ancestors, at any distance, the run has
\* exited, with the parent-negative error unless an earlier check of the
\* function stopped it; that error names such a sample and a label the sample is
\* positive for whose parent it is negative for; and without such a sample the
\* parent-negative error is never reported.
C3_AncestorPositivity ==
    InputsChecked =>
        /\ BrokenSamples # {} => pc = "exited" /\ error.kind \in InputErrors
        /\ (BrokenSamples # {} /\ ~RejectedBefore) => error.kind = "parent_negative"
        /\ error.kind = "parent_negative" =>
              /\ pc = "exited"
              /\ error.sample \in BrokenSamples
              /\ error.label \in sample_sheet.pos[error.sample]
              /\ subtypeObjects[error.label].parent # None
              /\ subtypeObjects[error.label].parent \notin sample_sheet.pos[error.sample]
              /\ NothingFitted
        /\ BrokenSamples = {} => error.kind # "parent_negative"

\* a sample positive for C and its parent B, negative for the grandparent A
C3_Witness ==
    /\ hierarchy = Chain3
    /\ pc = "exited"
    /\ error.kind = "parent_negative"
    /\ error.label = "B"
    /\ sample_sheet.pos[error.sample] = {"B", "C"}

\* C4: once check_training_inputs has run on inputs where a sample of X is not
\* in the sheet's index, or a column name occurs twice, or a column is no label
\* of the hierarchy, the run has exited with one of these three errors and no
\* scaler or classifier task has started.
C4_InconsistentInputsExit ==
    (InputsChecked /\ RejectedBefore) =>
        /\ pc = "exited"
        /\ error.kind \in {"sample_not_in_sheet", "duplicate_column", "label_not_in_hierarchy"}
        /\ NothingFitted

C4_Witness ==
    /\ pc = "exited"
    /\ error.kind = "label_not_in_hierarchy"
    /\ error.label = "Q"
    /\ X \subseteq sample_sheet.index

\* C5 as stated: once check_training_inputs has run on a sheet that lists a
\* sample X has no row for, the run has exited and no task has started.
C5_SheetOnlySampleExits ==
    (InputsChecked /\ ~(sample_sheet.index \subseteq X)) =>
        (pc = "exited" /\ NothingFitted)

\* C5 as amended: the sample-mismatch error is reported exactly when a sample of
\* X is missing from the sheet's index (not the other way round); it names such
\* a sample, and the run has then exited before any task started.
C5_MatrixOnlySampleExits ==
    InputsChecked =>
        /\ error.kind = "sample_not_in_sheet" <=> ~(X \subseteq sample_sheet.index)
        /\ error.kind = "sample_not_in_sheet" =>
              /\ pc = "exited"
              /\ error.sample \in X
              /\ error.sample \notin sample_sheet.index
              /\ NothingFitted

C5_Witness ==
    /\ pc = "exited"
    /\ error.kind = "sample_not_in_sheet"
    /\ sample_sheet.index # {}
    /\ ~(sample_sheet.index \subseteq X)

\* the key a label's Phase B task looks up in scalers
TableParent(l) ==
    hierarchy.rows[CHOOSE i \in 1..Len(hierarchy.rows) : hierarchy.rows[i].label = l].parent

ParentContext(l) == IF TableParent(l) = "" THEN "Level0" ELSE TableParent(l)

\* C6: a Phase B task has started only if every Phase A task is done; while
\* Phase B tasks exist the scaler of every label's parent context is in the
\* dict; and the scaler a Phase B task has read is still the one in the dict,
\* with no write of that key since.
C6_PhaseBarrier ==
    /\ (\E l \in DOMAIN clfTask : clfTask[l] # "pending") =>
          \A i \in DOMAIN scalerTask : scalerTask[i] = "done"
    /\ phase = "B" => \A l \in TableLabelSet : ParentContext(l) \in DOMAIN scalers
    /\ \A l \in DOMAIN clfRead :
          /\ scalers[ParentContext(l)] = clfRead[l].scaler
          /\ scalerWrites[ParentContext(l)] = clfRead[l].writes

\* two classifier tasks in flight, one of them of a node below level 1
C6_Witness ==
    /\ pc = "phaseB"
    /\ n_jobs > 1
    /\ \E l, m \in DOMAIN clfTask :
          /\ l # m
          /\ clfTask[l] = "running"
          /\ clfTask[m] = "running"
          /\ ParentContext(l) # "Level0"
          /\ clfRead[l].scaler.samples # {}

\* C7: the Phase A tasks have pairwise distinct keys, no key of scalers is
\* written twice, and no node's classifier is written twice.
C7_DistinctSlots ==
    /\ phase # "none" =>
          \A i, j \in DOMAIN scalerTask :
              i # j => parent_labels(subtypeObjects, LabelOrder)[i]
                          # parent_labels(subtypeObjects, LabelOrder)[j]
    /\ \A k \in DOMAIN scalerWrites : scalerWrites[k] <= 1
    /\ \A l \in DOMAIN clfWrites : clfWrites[l] <= 1

\* C8: the artifact exists only in a run that has completed every Phase A and
\* every Phase B task and reported no error; a run that has exited or crashed,
\* or in which a task has failed, has no artifact.
C8_NoPartialModel ==
    /\ artifact # <<>> =>
          /\ pc = "done"
          /\ error = NoError
          /\ scalerTask # <<>>
          /\ \A i \in DOMAIN scalerTask : scalerTask[i] = "done"
          /\ DOMAIN clfTask = TableLabelSet
          /\ \A l \in DOMAIN clfTask : clfTask[l] = "done"
    /\ (pc \in {"exited", "crashed", "no_tree"} \/ error # NoError) => artifact = <<>>
    /\ (AnyFailed(scalerTask) \/ AnyFailed(clfTask)) => artifact = <<>>

\* a run with worker threads in which one classifier failed after another was
\* fitted
C8_Witness ==
    /\ pc = "crashed"
    /\ n_jobs > 1
    /\ \E l, m \in DOMAIN clfTask : clfTask[l] = "failed" /\ clfTask[m] = "done"
    /\ artifact = <<>>

\* C9: a written artifact holds the hierarchy of the table, a fitted classifier
\* for exactly the labels, a fitted scaler for exactly 'Level0' and the labels
\* that are some row's parent, and is_default = FALSE.
C9_ArtifactContents ==
    artifact # <<>> =>
        LET m == artifact[1]
            parents == {TableParent(l) : l \in TableLabelSet} \ {""}
        IN /\ DOMAIN m.hierarchy = TableLabelSet
           /\ \A l \in TableLabelSet :
                 /\ m.hierarchy[l].parent =
                       (IF TableParent(l) = "" THEN None ELSE TableParent(l))
                 /\ Range(m.hierarchy[l].children) =
                       {k \in TableLabelSet : TableParent(k) = l}
           /\ DOMAIN m.clfs = TableLabelSet
           /\ \A l \in TableLabelSet : m.clfs[l].fitted
           /\ DOMAIN m.scalers = {"Level0"} \cup parents
           /\ \A k \in DOMAIN m.scalers : m.scalers[k] # NoScaler
           /\ m.is_default = FALSE

C9_Witness ==
    /\ artifact # <<>>
    /\ Cardinality(DOMAIN artifact[1].clfs) = 3
    /\ Cardinality(DOMAIN artifact[1].scalers) = 3

\* the samples of the sheet that hold a 1 for a label
PositiveFor(l) == {s \in sample_sheet.index : l \in sample_sheet.pos[s]}

\* C11 as stated: the context stored under 'Level0' is fitted on every sample
\* of X, and the context stored under a label on the samples positive for the
\* parent of that label (every sample of X where the label has no parent).
C11_ParentPositiveSubset ==
    \A k \in DOMAIN scalers :
        scalers[k].samples =
            IF k = "Level0" \/ TableParent(k) = "" THEN X ELSE PositiveFor(TableParent(k))

\* C11 as amended: a context is stored only under 'Level0' and under labels that
\* are some row's parent; the one under 'Level0' is fitted on every sample of X;
\* the one under a label is fitted on the samples that are positive for that
\* label itself, all of them samples of X.
C11_OwnPositiveSubset ==
    \A k \in DOMAIN scalers :
        /\ k = "Level0" => scalers[k].samples = X
        /\ k # "Level0" =>
              /\ \E l \in TableLabelSet : TableParent(l) = k
              /\ scalers[k].samples = PositiveFor(k)
              /\ scalers[k].samples \subseteq X

\* a chain A, B, C where the positives of B are fewer than those of its parent A
C11_Witness ==
    /\ hierarchy = Chain3
    /\ DOMAIN scalers = {"Level0", "A", "B"}
    /\ scalers["B"].samples # {}
    /\ scalers["B"].samples # PositiveFor("A")
    /\ scalers["A"].samples = PositiveFor("A")

\* how often an id occurs in a list
Occurrences(seq, id) == Cardinality({i \in DOMAIN seq : seq[i] = id})

\* no id of the list is followed by a smaller one
SortedIds(seq) == \A i, j \in DOMAIN seq : i < j => ~StrLess(seq[j], seq[i])

\* C12 as stated: the list filter_genes returns holds no id that the annotation
\* lacks, no gene of chromosome X or Y, not XIST, no gene that is not
\* protein-coding, no mitochondrial gene; it is sorted, has no id twice, and
\* every id of it is a column of X.
C12_NoSexChromosomeNoDuplicate ==
    filtered.state = "returned" =>
        LET g == filtered.candidate_genes
        IN /\ \A i \in DOMAIN g :
                 /\ g[i] \in DOMAIN ensembl_data
                 /\ ensembl_data[g[i]].contig \notin {"X", "Y", "MT"}
                 /\ ensembl_data[g[i]].name # "XIST"
                 /\ ensembl_data[g[i]].biotype = "protein_coding"
                 /\ g[i] \in Range(X_columns)
           /\ SortedIds(g)
           /\ \A i, j \in DOMAIN g : g[i] = g[j] => i = j

\* C12 as amended: the list holds no id that the annotation lacks, no gene of
\* chromosome Y, not XIST, no gene that is not protein-coding, no mitochondrial
\* gene; it is sorted; every id of it is a column of X and occurs in it as often
\* as among the columns of X, so the list has no id twice when X has none twice.
C12_AnnotationDrops ==
    filtered.state = "returned" =>
        LET g == filtered.candidate_genes
        IN /\ \A i \in DOMAIN g :
                 /\ g[i] \in DOMAIN ensembl_data
                 /\ ensembl_data[g[i]].contig \notin {"Y", "MT"}
                 /\ ensembl_data[g[i]].name # "XIST"
                 /\ ensembl_data[g[i]].biotype = "protein_coding"
                 /\ g[i] \in Range(X_columns)
                 /\ Occurrences(g, g[i]) = Occurrences(X_columns, g[i])
           /\ SortedIds(g)

\* a gene of chromosome X is kept, one of chromosome Y dropped, the rest sorted
C12_Witness ==
    /\ filtered.state = "returned"
    /\ X_columns = <<"ENSG03", "ENSG02", "ENSG01">>
    /\ filtered.candidate_genes = <<"ENSG01", "ENSG02">>

\* the rows and the child labels of the context a scaler is made for
ContextRows == IF context = "Level0" THEN X ELSE PositiveFor(context)
ContextChildren ==
    {l \in TableLabelSet : TableParent(l) = (IF context = "Level0" THEN "" ELSE context)}

\* the smallest number of rows of the context that are positive for a child
SmallestChildGroup ==
    Min({Cardinality({s \in ContextRows : l \in sample_sheet.pos[s]}) : l \in ContextChildren})

\* the ids among the columns of X that the drops by annotation leave
RemainingIds ==
    {g \in Range(X_columns) \cap DOMAIN ensembl_data :
        /\ ensembl_data[g].contig \notin {"Y", "MT"}
        /\ ensembl_data[g].name # "XIST"
        /\ ensembl_data[g].biotype = "protein_coding"}

\* the sum of a sample's counts, over every column and over the remaining ones
WholeLibrary(s) == RowSum(X_counts[s], Len(X_columns))
RemainingLibrary(s) == RowSumOver(X_counts[s], X_columns, RemainingIds, Len(X_columns))

\* the ids with a column whose counts-per-million reach 5 / min(library) * 1e6
\* in at least n rows of the context, for a given notion of library size:
\* count / library >= 5 / smallest library
KeptIds(Library(_), n) ==
    LET smallest == Min({Library(r) : r \in ContextRows})
    IN {g \in RemainingIds :
          \E j \in DOMAIN X_columns :
             /\ X_columns[j] = g
             /\ Cardinality({s \in ContextRows :
                    /\ smallest > 0
                    /\ X_counts[s][j] * smallest >= 5 * Library(s)}) >= n}

\* C13 as stated: min_subtype is the smallest number of rows of the context
\* that are positive for one of its child labels, and, where every row has a
\* count in a remaining column, the returned ids are the remaining ids that
\* reach the threshold in at least min_subtype rows, with counts-per-million
\* and smallest library taken over the remaining columns.
C13_CpmOfRemainingMatrix ==
    filtered.state = "returned" =>
        /\ filtered.min_subtype = SmallestChildGroup
        /\ (\A s \in ContextRows : RemainingLibrary(s) > 0) =>
              Range(filtered.candidate_genes) = KeptIds(RemainingLibrary, SmallestChildGroup)

\* C13 as amended: the same, with counts-per-million and smallest library taken
\* over every column of the matrix the call is given, dropped columns included.
C13_CpmOfWholeMatrix ==
    filtered.state = "returned" =>
        /\ filtered.min_subtype = SmallestChildGroup
        /\ Range(filtered.candidate_genes) = KeptIds(WholeLibrary, SmallestChildGroup)

\* the counts of a gene the annotation lacks make a known gene miss the
\* threshold in one of the two rows it needs
C13_Witness ==
    /\ filtered.state = "returned"
    /\ context = "A"
    /\ filtered.min_subtype = 2
    /\ X_columns = <<"ENSG99", "ENSG01">>
    /\ X_counts["s1"] = <<5, 5>>
    /\ X_counts["s2"] = <<0, 5>>
    /\ filtered.candidate_genes = <<>>

\* what the inputs alone say a context's scaler is: the rows and, with the gene
\* filter on, the size of the smallest group of a child
ScalerOfInputs(k) ==
    LET rows == IF k = "Level0" THEN X ELSE PositiveFor(k)
        kids == {l \in TableLabelSet : TableParent(l) = (IF k = "Level0" THEN "" ELSE k)}
    IN [samples |-> rows,
        min_subtype |->
            IF filter
            THEN Min({Cardinality({s \in rows : l \in sample_sheet.pos[s]}) : l \in kids})
            ELSE NoFilter]

\* what the inputs alone say a label's classifier is
ClfOfInputs(l) ==
    [fitted |-> TRUE,
     samples |-> IF ParentContext(l) = "Level0" THEN X ELSE PositiveFor(TableParent(l)),
     scaler |-> ScalerOfInputs(ParentContext(l))]

\* C14: whatever the pool size and the order of the tasks, a stored scaler, a
\* stored classifier and the written artifact are what the hierarchy, the
\* sheet, the matrix and the filter flag determine: no value depends on n_jobs
\* or on which task ran or ended first.
C14_Deterministic ==
    /\ \A k \in DOMAIN scalers : scalers[k] = ScalerOfInputs(k)
    /\ \A l \in DOMAIN subtypeObjects :
          subtypeObjects[l].clf.fitted => subtypeObjects[l].clf = ClfOfInputs(l)
    /\ artifact # <<>> =>
          /\ artifact[1].scalers =
                [k \in {"Level0"} \cup ({TableParent(l) : l \in TableLabelSet} \ {""})
                    |-> ScalerOfInputs(k)]
          /\ artifact[1].clfs = [l \in TableLabelSet |-> ClfOfInputs(l)]

\* a model written by a pool of workers, its contexts fitted on different rows
C14_Witness ==
    /\ pc = "done"
    /\ n_jobs > 1
    /\ hierarchy = Chain3
    /\ artifact[1].scalers["Level0"].samples # artifact[1].scalers["A"].samples
    /\ artifact[1].clfs["C"].scaler = artifact[1].scalers["B"]

C16_RowsAsWideAsHeader ==
    pc = "csv_written" =>
        IF DOMAIN multi_calls = {} THEN ~csv_file.exists
        ELSE LET m == Max({Len(multi_calls[i]) : i \in DOMAIN multi_calls})
                 rows == csv_file.rows
             IN /\ csv_file.exists
                /\ Len(rows) = 1 + Len(sample_order)
                /\ Len(rows[1]) = 2 * m + 1
                /\ \A i \in DOMAIN sample_order :
                      LET row == rows[i + 1]
                          calls == multi_calls[sample_order[i]]
                      IN /\ Len(row) = Len(rows[1])
                         /\ row[1] = sample_order[i]
                         /\ \A c \in DOMAIN calls :
                               /\ row[2 * c] = calls[c].label
                               /\ row[2 * c + 1] = RoundedText(calls[c].proba)
                         /\ \A f \in (2 * Len(calls) + 2)..Len(row) : row[f] = ""

\* convert_symbols_to_ensembl has returned
SymbolsReturned == pc \in {"symbols_returned", "relabelled", "relabel_raised"}

\* what holds in every state of a conversion
SymbolsInvariant ==
    /\ Len(passes) <= Len(symb_list) + 1
    /\ \A k \in 1..(Len(passes) - 1) : passes[k + 1] < passes[k]
    /\ SymbolsReturned =>
          /\ \A i \in Range(symb_list) :
                (i \in DOMAIN confirmed) # (i \in Range(unconfirmed))
          /\ \A i \in DOMAIN confirmed :
                /\ i \in Range(symb_list)
                /\ confirmed[i].kind = "gene_id"
                /\ confirmed[i].id \in DOMAIN ensembl_data
                /\ ensembl_data[confirmed[i].id].name = Upper(i)
    /\ pc # "relabel_raised"
    /\ pc = "relabelled" =>
          /\ Len(X_columns) = Cardinality({j \in DOMAIN symb_list : symb_list[j] \in DOMAIN confirmed})
          /\ \A j \in DOMAIN X_columns : X_columns[j] \in DOMAIN ensembl_data

\* what holds of every step of a conversion: a pass resolves as many symbols
\* as it takes off the list, and after a pass that resolved none the only
\* step is the return
SymbolsStep ==
    /\ passes' # passes =>
          /\ fixed' = Len(unconfirmed) - Len(unconfirmed')
          /\ fixed' > 0 => Len(unconfirmed') < Len(unconfirmed)
    /\ (pc = "elimination" /\ fixed = 0) => pc' = "symbols_returned"

\* C17: the conversion ends, and so does the relabelling of run() after it;
\* each pass of the elimination loop that resolves a symbol shortens the list
\* and a pass that resolves none ends the loop, so there are at most
\* len(symb_list) + 1 passes; on return every symbol given is either a key of
\* confirmed or in unconfirmed, never both; every value of confirmed is the
\* gene id of a gene of that name; and line 88 finds an entry for every column
\* that is left.
C17_SymbolsConverted ==
    /\ []SymbolsInvariant
    /\ [][SymbolsStep]_vars
    /\ <>(pc = "relabelled")

\* a symbol in lower case that is resolved, one with two genes, one with none
C17_Witness ==
    /\ pc = "relabelled"
    /\ symb_list = <<"DUP1", "tal1", "NOPE">>
    /\ DOMAIN confirmed = {"tal1"}
    /\ unconfirmed = <<"DUP1", "NOPE">>
    /\ passes = <<1>>
    /\ X_columns = <<"ENSG01">>

DefaultOf(property) ==
    CASE property = "C" -> 2000
      [] property = "tol" -> 1
      [] property = "max_iter" -> 10000
      [] property = "penalty" -> "l1"
      [] property = "solver" -> "saga"
      [] property = "class_weight" -> "balanced"
      [] property = "random_state" -> 0

\* the table gives a value for the property of the label
Specified(l, property) ==
    /\ training_params.present
    /\ l \in training_params.index
    /\ property \in training_params.columns
    /\ training_params.cell[<<l, property>>] # ""

====
